---- MODULE Spec2Model ----
(***************************************************************************)
(* Q-Speech: the POST /api/analyze-speech handler with its provider        *)
(* fallback chain (OpenAI analyzeTranscript, Gemini                        *)
(* analyzeTranscriptWithGemini, the local generateFallbackAnalysis), the   *)
(* score composition of each analyzer, and the sanitization of the Gemini  *)
(* answer.                                                                 *)
(*                                                                         *)
(* Numbers.  Every JavaScript number that is a score is kept as an exact   *)
(* rational with denominator Scale: the integer n stands for n / Scale.    *)
(* The code divides by 3 (averages) and multiplies by 0.4, 0.6 and 0.2     *)
(* (fifths), so Scale = 2*3*5 keeps every value of the model an integer.   *)
(* A field that is absent from a JSON object (JavaScript undefined) is     *)
(* Undefined.                                                              *)
(***************************************************************************)
EXTENDS Integers, Sequences, FiniteSets, TLC

\* ------------------------------------------------------------------ bounds

\* Requests served one after the other in one behaviour.
MaxRequests == 1

\* Registered users, and session records the store holds at most.
MaxUsers == 2
MaxSessions == 2

\* Recording sessions started on the practice page in one behaviour.
MaxRuns == 2

\* ----------------------------------------------------------------- numbers

Scale == 2 * 3 * 5

\* JavaScript undefined in a numeric field; no scaled score equals it.
Undefined == -1

\* The integer k as a scaled number.
S(k) == k * Scale

IsNum(x) == x # Undefined

\* x * (num/den) for a scaled x; exact for the weights the code uses.
Times(x, num, den) == (x * num) \div den

\* Math.round: the nearest integer, halves rounded up.
MathRound(x) == Scale * ((2 * x + Scale) \div (2 * Scale))

\* Math.min(100, Math.max(0, x))
Clamp100(x) == IF x < 0 THEN 0 ELSE IF x > S(100) THEN S(100) ELSE x

\* JavaScript a || b on numbers: b when a is undefined or 0.
OrElse(a, b) == IF a = Undefined \/ a = 0 THEN b ELSE a

\* ------------------------------------------------------------------ inputs

\* req.body.transcript.  A string is described by what the analyzers read
\* from it: its length, the words of split(/\s+/), the matches of the
\* filler patterns and the non-empty pieces of split(/[.!?]+/).
Transcript(type, chars, words, fillers, sentences) ==
    [type |-> type, chars |-> chars, words |-> words,
     fillers |-> fillers, sentences |-> sentences]

MissingTranscript == Transcript("undefined", 0, 0, 0, 0)
NumberTranscript  == Transcript("number", 0, 0, 0, 0)
EmptyTranscript   == Transcript("string", 0, 0, 0, 0)
\* "   ": no word, no filler, one piece.
BlankTranscript   == Transcript("string", 3, 0, 0, 1)

WordCounts     == {2, 30, 120}
FillerCounts   == {0, 6}
SentenceCounts == {1, 3}

TextTranscripts ==
    {Transcript("string", 6 * w, w, f, s) :
        w \in WordCounts, f \in FillerCounts, s \in SentenceCounts}

Transcripts ==
    {MissingTranscript, NumberTranscript, EmptyTranscript, BlankTranscript}
        \cup TextTranscripts

\* req.body.duration: a JSON value; val is in seconds.
Duration(type, val) == [type |-> type, val |-> val]

Durations ==
    {Duration("undefined", 0), Duration("string", 30), Duration("number", 0),
     Duration("number", -5), Duration("number", 30), Duration("number", 60)}

\* req.body.poseData: absent, the metrics object the practice page sends,
\* or an array of poses (length len).
Pose(kind, posture, gestures, movement, len) ==
    [kind |-> kind, posture |-> posture, gestures |-> gestures,
     movement |-> movement, len |-> len]

NoPose == Pose("absent", Undefined, Undefined, Undefined, 0)

PoseDatas ==
    {NoPose,
     Pose("object", S(85), S(60), S(0), 0),
     Pose("object", S(40), S(90), Undefined, 0),
     Pose("object", S(-20), S(50), S(150), 0),
     Pose("array", Undefined, Undefined, Undefined, 2)}

Request(auth, transcript, duration, poseData) ==
    [auth |-> auth, transcript |-> transcript, duration |-> duration,
     poseData |-> poseData]

Requests ==
    {Request(a, t, d, p) :
        a \in BOOLEAN, t \in Transcripts, d \in Durations, p \in PoseDatas}

NoRequest == Request(FALSE, MissingTranscript, Duration("undefined", 0), NoPose)

\* JavaScript truthiness of the two body fields.
Truthy(v) ==
    CASE v.type = "undefined" -> FALSE
      [] v.type = "number" -> v.val # 0
      [] OTHER -> TRUE

TranscriptTruthy(t) == t.type = "string" /\ t.chars > 0

\* transcript.trim() === ""
IsBlank(t) == t.words = 0

\* ---------------------------------------------------------------- analyses

\* A CompositeAnalysis as the caller receives it.  src names the code that
\* built it; insights are the entries of speechContent.insights and items
\* those of topActionItems, each named by the template it comes from.
Analysis(src, cs, ls, ss, bs, po, ge, mo, cf, ov, ins, its) ==
    [src |-> src, content |-> cs, language |-> ls, structure |-> ss,
     body |-> bs, posture |-> po, gestures |-> ge, movement |-> mo,
     confidence |-> cf, overall |-> ov, insights |-> ins, items |-> its]

NoAnalysis ==
    Analysis("none", Undefined, Undefined, Undefined, Undefined, Undefined,
             Undefined, Undefined, Undefined, Undefined, <<>>, <<>>)

\* The canned result of analyzeTranscript for an empty transcript.
EmptyAnalysis ==
    Analysis("empty", 0, 0, 0, 0, 0, 0, 0, 0, 0,
             <<"no_speech">>, <<"record_a_speech">>)

\* The result analyzeTranscript's catch block returns.
ErrorAnalysis ==
    Analysis("error", 0, 0, 0, 0, 0, 0, 0, 0, 0,
             <<"error_occurred">>, <<"try_again">>)

\* ------------------------------------------- the deterministic local analyzer

\* wordsPerMinute = wordCount / (duration / 60), compared with a limit.
WpmBelow(t, d, limit) == 60 * t.words < limit * d.val
WpmAbove(t, d, limit) == 60 * t.words > limit * d.val

\* avgSentenceLength = sentences.length > 0 ? wordCount / sentences.length : 0
AvgLenAbove(t, n) == t.sentences > 0 /\ t.words > n * t.sentences
AvgLenBelow(t, n) == t.sentences = 0 \/ t.words < n * t.sentences

\* posture, gestures, movement: the defaults 70, 65, 75, replaced inside
\* if (poseData) by poseData.<field> || <default>.
PoseMetric(p, field, default) ==
    IF p.kind = "absent" THEN default ELSE OrElse(p[field], default)

\* speechScore of the analyzer registered with the routes.
SpeechScore(t, d) ==
    Clamp100(S(70
        + (IF t.words < 20 THEN -15 ELSE IF t.words > 100 THEN 10 ELSE 0)
        + (IF WpmBelow(t, d, 100) THEN -5
           ELSE IF WpmAbove(t, d, 180) THEN -10 ELSE 5)
        - (t.fillers * 2)
        + (IF AvgLenAbove(t, 5) /\ AvgLenBelow(t, 20) THEN 5 ELSE -5)))

\* The suggestions array, in the order of its push calls.
Suggestions(t, d, posture, gestures) ==
    (IF t.words < 50 THEN <<"outline">> ELSE <<>>)
    \o (IF WpmAbove(t, d, 180) THEN <<"slow_down">>
        ELSE IF WpmBelow(t, d, 100) THEN <<"speed_up">> ELSE <<>>)
    \o (IF t.fillers > 5 THEN <<"fillers">> ELSE <<>>)
    \o (IF posture < S(70) THEN <<"posture">> ELSE <<>>)
    \o (IF gestures < S(70) THEN <<"gestures">> ELSE <<>>)
    \o <<"keep_practicing">>

FallbackOverall(speechScore, posture, gestures, movement) ==
    Times(speechScore, 2, 5)
        + Times((posture + gestures + movement) \div 3, 2, 5)
        + Times(S(75), 1, 5)

generateFallbackAnalysis(t, d, p) ==
    LET posture == PoseMetric(p, "posture", S(70))
        gestures == PoseMetric(p, "gestures", S(65))
        movement == PoseMetric(p, "movement", S(75))
        speechScore == SpeechScore(t, d)
    IN  Analysis("fallback", speechScore, speechScore, S(65),
                 (posture + gestures + movement) \div 3,
                 posture, gestures, movement,
                 (posture + S(70) + S(75)) \div 3,
                 FallbackOverall(speechScore, posture, gestures, movement),
                 <<"basic_analytics">>,
                 Suggestions(t, d, posture, gestures))

\* The later version of the analyzer (filler penalty capped, bonus for long
\* speeches, fixed action items, rounded overall score).
SpeechScoreEnhanced(t, d) ==
    LET penalty == IF t.fillers * 2 < 20 THEN t.fillers * 2 ELSE 20
    IN  Clamp100(S(70
            + (IF t.words < 20 THEN -15 ELSE IF t.words > 100 THEN 10 ELSE 0)
            + (IF WpmBelow(t, d, 100) THEN -5
               ELSE IF WpmAbove(t, d, 180) THEN -10 ELSE 5)
            - penalty
            + (IF AvgLenAbove(t, 5) /\ AvgLenBelow(t, 20) THEN 5 ELSE -5)
            + (IF t.words > 200 THEN 5 ELSE 0)))

RateImpact(t, d) ==
    IF WpmAbove(t, d, 180) THEN -10 ELSE IF WpmBelow(t, d, 100) THEN -5 ELSE 5

generateFallbackAnalysisEnhanced(t, d, p) ==
    LET posture == PoseMetric(p, "posture", S(70))
        gestures == PoseMetric(p, "gestures", S(65))
        movement == PoseMetric(p, "movement", S(75))
        speechScore == SpeechScoreEnhanced(t, d)
        fillerImpact == IF t.fillers < 10 THEN t.fillers ELSE 10
    IN  Analysis("fallback", speechScore, speechScore, S(70),
                 (posture + gestures + movement) \div 3,
                 posture, gestures, movement,
                 Clamp100(S(70 + RateImpact(t, d) - fillerImpact)),
                 MathRound(Times(speechScore, 2, 5)
                     + Times((posture + gestures + movement) \div 3, 2, 5)
                     + Times(S(70), 1, 5)),
                 <<"speech_feedback">>,
                 <<"mirror", "record", "outline", "pause", "vary_pace">>)

\* ------------------------------------------------------- provider failures

\* What a rejected provider call carries: the fields the route reads.
ProviderError(status, type, code, quotaMessage) ==
    [status |-> status, type |-> type, code |-> code,
     quotaMessage |-> quotaMessage]

RateLimited   == ProviderError(429, "", "", FALSE)
QuotaType     == ProviderError(0, "insufficient_quota", "", FALSE)
QuotaCode     == ProviderError(0, "", "insufficient_quota", FALSE)
QuotaMessage  == ProviderError(0, "", "", TRUE)
NetworkError  == ProviderError(0, "", "ECONNRESET", FALSE)

ProviderErrors ==
    {RateLimited, QuotaType, QuotaCode, QuotaMessage, NetworkError}

isRateLimitOrQuotaError(e) ==
    \/ e.status = 429
    \/ e.type = "insufficient_quota"
    \/ e.code = "insufficient_quota"
    \/ e.quotaMessage

ErrorClass(e) == IF isRateLimitOrQuotaError(e) THEN "quota" ELSE "other"

\* One chat-completion call of the OpenAI client: a JSON answer (with or
\* without an insights array), an empty content, a content that is not
\* JSON, or a rejection.
ApiJson(score, hasInsights) ==
    [kind |-> "json", score |-> score, hasInsights |-> hasInsights,
     error |-> NetworkError]
ApiEmpty == [kind |-> "empty", score |-> Undefined, hasInsights |-> TRUE,
             error |-> NetworkError]
ApiUnparseable ==
    [kind |-> "unparseable", score |-> Undefined, hasInsights |-> TRUE,
     error |-> NetworkError]
ApiRejected(e) ==
    [kind |-> "rejected", score |-> Undefined, hasInsights |-> TRUE,
     error |-> e]

ApiFailures == {ApiUnparseable} \cup {ApiRejected(e) : e \in ProviderErrors}

StructureOutcomes ==
    {ApiJson(S(50), TRUE), ApiJson(S(80), TRUE), ApiJson(S(80), FALSE),
     ApiEmpty} \cup ApiFailures
ConfidenceOutcomes == {ApiJson(S(60), TRUE), ApiEmpty} \cup ApiFailures
PoseOutcomes == {ApiJson(S(70), TRUE), ApiEmpty} \cup ApiFailures
SummaryOutcomes == {ApiJson(Undefined, TRUE), ApiEmpty} \cup ApiFailures

\* The failures of one call that the request remembers: "quota", "other".
FailureOf(o) ==
    CASE o.kind = "rejected" -> {ErrorClass(o.error)}
      [] o.kind = "unparseable" -> {"other"}
      [] OTHER -> {}

\* ------------------------------------------------ the analyses of OpenAI

\* One analysis of the fan-out: its score and its insights array
\* (iterable is FALSE when the parsed JSON has no insights array).
Part(done, score, insights, iterable) ==
    [done |-> done, score |-> score, insights |-> insights,
     iterable |-> iterable]

Pending == Part(FALSE, Undefined, <<>>, TRUE)

\* try { create(...); JSON.parse(content || default) } catch { default 50 }
Guarded(o, emptyScore, tag) ==
    CASE o.kind = "json" ->
            Part(TRUE, o.score,
                 IF o.hasInsights THEN <<tag, tag, tag>> ELSE <<>>,
                 o.hasInsights)
      [] o.kind = "empty" -> Part(TRUE, emptyScore, <<"unable">>, TRUE)
      [] OTHER -> Part(TRUE, S(50), <<"error_occurred">>, TRUE)

analyzeStructure(o) == Guarded(o, S(50), "structure")

analyzeConfidence(o) == Guarded(o, S(50), "confidence")

\* analyzePose calls the provider only for a non-empty array.
PoseNeedsProvider(p) == p.kind = "array" /\ p.len > 0

BodyDefault == Part(TRUE, S(50), <<"not_available">>, TRUE)

analyzePose(o) == Guarded(o, S(60), "body")

\* analyzeGrammarAndLanguage: the score and the advancedInsights it returns.
GrammarResults ==
    {Part(TRUE, S(80), <<>>, TRUE),
     Part(TRUE, S(90), <<"grammar", "grammar", "grammar">>, TRUE)}

\* generateSummaryAndActionItems: the actionItems it returns.
generateSummaryAndActionItems(o) ==
    CASE o.kind = "json" -> <<"coach", "coach", "coach">>
      [] o.kind = "empty" -> <<"more_sessions", "techniques">>
      [] OTHER -> <<"grammar", "structure", "confidence", "body_language">>

\* contentScore = Math.round(grammar.score * 0.6 + structure.score * 0.4)
ContentScore(grammar, structure) ==
    MathRound(Times(grammar, 3, 5) + Times(structure, 2, 5))

\* OverallScore with Math.floor in place of Math.round.
OverallScore_Floored(content, body, confidence) ==
    Scale * ((Times(content, 2, 5) + Times(body, 2, 5)
              + Times(confidence, 1, 5)) \div Scale)

\* overallScore = Math.round(content * 0.4 + body * 0.4 + confidence * 0.2)
OverallScore(content, body, confidence) ==
    MathRound(Times(content, 2, 5) + Times(body, 2, 5)
              + Times(confidence, 1, 5))

Take(seq, n) == IF Len(seq) <= n THEN seq ELSE SubSeq(seq, 1, n)

\* What analyzeTranscript returns once the four analyses and the summary
\* call have settled: the composed result, or the result of its catch block
\* when spreading structureAnalysis.insights throws.
ComposeAnalysis(parts, content, items) ==
    IF ~parts.structure.iterable
    THEN ErrorAnalysis
    ELSE Analysis("composed", content, parts.grammar.score,
                  parts.structure.score, parts.body.score,
                  Undefined, Undefined, Undefined,
                  parts.confidence.score,
                  OverallScore(content, parts.body.score,
                               parts.confidence.score),
                  Take(parts.grammar.insights \o parts.structure.insights, 5),
                  items)

\* ------------------------------------------------------ the Gemini answer

\* A section (speechContent, bodyLanguage, confidence) of the parsed JSON.
Section(present, score) == [present |-> present, score |-> score]

\* topActionItems of the parsed JSON: missing, not an array, or an array.
Items(kind, list) == [kind |-> kind, list |-> list]

GeminiJson(sc, bl, cf, overall, items) ==
    [speechContent |-> sc, bodyLanguage |-> bl, confidence |-> cf,
     overallScore |-> overall, topActionItems |-> items]

SpeechSections ==
    {Section(FALSE, Undefined), Section(TRUE, Undefined),
     Section(TRUE, S(80)), Section(TRUE, S(150))}
BodySections ==
    {Section(FALSE, Undefined), Section(TRUE, S(70)), Section(TRUE, S(-10))}
ConfidenceSections ==
    {Section(TRUE, Undefined), Section(TRUE, S(60)), Section(TRUE, 0)}
OverallScores == {Undefined, 0, S(72), S(150)}
ItemLists ==
    {Items("missing", <<>>), Items("string", <<>>), Items("array", <<>>),
     Items("array", <<"provider", "provider">>)}

GeminiJsons ==
    {GeminiJson(sc, bl, cf, ov, it) :
        sc \in SpeechSections, bl \in BodySections,
        cf \in ConfidenceSections, ov \in OverallScores, it \in ItemLists}

\* if (!analysis.<section>) analysis.<section> = { score: 70, insights }
EnsureSection(sec) == IF sec.present THEN sec ELSE Section(TRUE, S(70))

\* typeof value === 'number' ? Math.max(0, Math.min(100, value)) : value
ClampIfNumber(x) == IF IsNum(x) THEN Clamp100(x) ELSE x

validateAndSanitizeAnalysis(a) ==
    LET sc == EnsureSection(a.speechContent)
        bl == EnsureSection(a.bodyLanguage)
        cf == EnsureSection(a.confidence)
        overall ==
            IF a.overallScore = Undefined \/ a.overallScore = 0
            THEN Times(OrElse(sc.score, S(70)), 2, 5)
                 + Times(OrElse(bl.score, S(70)), 2, 5)
                 + Times(OrElse(cf.score, S(70)), 1, 5)
            ELSE a.overallScore
        items ==
            IF a.topActionItems.kind # "array" \/ a.topActionItems.list = <<>>
            THEN <<"practice_regularly", "record_yourself", "prepare_content">>
            ELSE a.topActionItems.list
    IN  Analysis("gemini", ClampIfNumber(sc.score), Undefined, Undefined,
                 ClampIfNumber(bl.score), Undefined, Undefined, Undefined,
                 ClampIfNumber(cf.score), ClampIfNumber(overall),
                 IF a.speechContent.present THEN <<"provider">>
                 ELSE <<"limited_data">>,
                 items)

\* What one call of analyzeTranscriptWithGemini meets: generateContent
\* rejects, the text holds no {...}, JSON.parse throws, or an object parses.
GeminiRejected(e) == [kind |-> "rejected", error |-> e, json |-> {}]
GeminiNoJson      == [kind |-> "no_json", error |-> NetworkError, json |-> {}]
GeminiBadJson     == [kind |-> "bad_json", error |-> NetworkError, json |-> {}]
GeminiParsed(j)   == [kind |-> "parsed", error |-> NetworkError, json |-> {j}]

GeminiOutcomes ==
    {GeminiNoJson, GeminiBadJson}
        \cup {GeminiRejected(e) : e \in ProviderErrors}
        \cup {GeminiParsed(j) : j \in GeminiJsons}

\* A settled promise: the value it resolved with, or thrown.
Returned(a) == [threw |-> FALSE, value |-> a, error |-> NetworkError]
Threw(e)    == [threw |-> TRUE, value |-> NoAnalysis, error |-> e]

\* How a Gemini call settled, as the request remembers it.
Settled(o) ==
    IF o.kind # "rejected" THEN o.kind
    ELSE IF isRateLimitOrQuotaError(o.error) THEN "rejected_quota"
    ELSE "rejected_other"

analyzeTranscriptWithGemini(o) ==
    IF o.kind = "parsed"
    THEN Returned(validateAndSanitizeAnalysis(CHOOSE j \in o.json : TRUE))
    ELSE Threw(o.error)

\* -------------------------------------------------------------- the routes

\* The versions of registerRoutes that serve POST /api/analyze-speech with
\* a provider tag: OpenAI first with Gemini on a quota error (no
\* authentication); Gemini first (authenticated); the same with the later
\* local analyzer.
Versions == {"openai_gemini", "gemini_fallback", "gemini_fallback_enhanced"}

RequiresAuth(v) == v # "openai_gemini"

\* !req.isAuthenticated() answers 401 where the version checks it.
Authorized(v, r) == ~RequiresAuth(v) \/ r.auth

\* !transcript || typeof transcript !== 'string' answers 400.
ValidTranscript(t) == TranscriptTruthy(t) /\ t.type = "string"

\* ValidDuration without the duration <= 0 test.
ValidDuration_NoSignTest(d) == Truthy(d) /\ d.type = "number"

\* !duration || typeof duration !== 'number' || duration <= 0 answers 400.
ValidDuration(d) == Truthy(d) /\ d.type = "number" /\ ~(d.val <= 0)

ValidBody(r) == ValidTranscript(r.transcript) /\ ValidDuration(r.duration)

Response(status, success, provider, analysis) ==
    [status |-> status, success |-> success, provider |-> provider,
     analysis |-> analysis]

LocalAnalyzer(v, r) ==
    IF v = "gemini_fallback_enhanced"
    THEN generateFallbackAnalysisEnhanced(r.transcript, r.duration, r.poseData)
    ELSE generateFallbackAnalysis(r.transcript, r.duration, r.poseData)

\* OnGeminiFailure rethrowing to the outer catch instead of falling back.
OnGeminiFailure_Rethrown(v, r) == Response(500, FALSE, "", NoAnalysis)

\* The catch (geminiError) branch of the route.
OnGeminiFailure(v, r) == Response(200, TRUE, "fallback", LocalAnalyzer(v, r))

OnGeminiSuccess(a) == Response(200, TRUE, "gemini", a)

OnPrimarySuccess(a) == Response(200, TRUE, "openai", a)

\* The outer catch of the route.
ServerError == Response(500, FALSE, "", NoAnalysis)

VARIABLES
    version,    \* the version of the routes that is registered
    served,     \* requests answered so far
    pc,         \* where the handler of the current request stands
    req,        \* the current request
    parts,      \* analyzeTranscript: the four analyses of the fan-out
    content,    \* analyzeTranscript: contentScore, once computed
    failures,   \* classes of the provider failures met by OpenAI calls
    caught,     \* the analyses of the fan-out whose catch block ran
    gemini,     \* the Gemini call: "none", "pending", or how it settled
    calls,      \* invocations of each analyzer for the current request
    stages,     \* the analyzers entered, in order
    responses,  \* the responses sent for the current request
    users,      \* the users table, in the order getAllUsers returns it
    store,      \* the speech_sessions table, in the order of insertion
    sreq,       \* the last request to the speech-sessions routes
    sresp,      \* the response it was given
    practice,   \* the state of the Practice component
    view,       \* the state of the ResultsView component
    run,        \* the number of the recording session in progress
    sent,       \* the poseData of the last analysis request, and its session
    saves,      \* the save requests issued, in order
    toasts,     \* the toasts shown
    open,       \* the practice page is loaded
    abandoned,  \* the sessions left or restarted before their results
    segments,   \* the argument of a call of analyzeDelivery
    delivery,   \* what the call returned
    metricsRef, \* Posedetector: metricsRef.current
    pushed,     \* Posedetector: the samples pushed so far, by keypoint name
    estimating, \* Posedetector: the calls of estimatePoses awaited
    currentPose, \* calculatePoseMetrics: the pose it is called with
    postureResult, \* calculatePoseMetrics: the posture it returns
    poseMetrics, \* RecordingView: its poseMetrics state
    captured,   \* RecordingView: the poseMetrics its handlers have captured
    published   \* RecordingView: the updates passed to onPoseMetricsUpdate

\* The state of the speech-analysis handler.
analyzeVars ==
    <<served, pc, req, parts, content, failures, caught, gemini, calls,
      stages, responses>>

\* The state of the speech-sessions routes and their storage.
sessionVars == <<users, store, sreq, sresp>>

\* The state of the practice page and of the requests it has made.
pageVars == <<practice, view, run, sent, saves, toasts, open, abandoned>>

\* The argument and the result of analyzeDelivery.
deliveryVars == <<segments, delivery>>

\* The state of the Posedetector component.
detectorVars == <<metricsRef, pushed, estimating>>

\* The argument of calculatePoseMetrics and the posture it returns.
postureVars == <<currentPose, postureResult>>

\* The state of the RecordingView component.
recordingVars == <<poseMetrics, captured, published>>

\* The state of the functions that are called on their own.
unitVars == <<deliveryVars, detectorVars, postureVars, recordingVars>>

\* What the speech-analysis handler never touches.
outsideAnalyze == <<sessionVars, pageVars, unitVars>>

\* What the practice page never touches.
outsidePage == <<version, analyzeVars, sessionVars, unitVars>>

vars == <<version, analyzeVars, sessionVars, pageVars, unitVars>>

NoParts ==
    [grammar |-> Pending, structure |-> Pending, confidence |-> Pending,
     body |-> Pending]

NoCalls == [openai |-> 0, gemini |-> 0, local |-> 0]

\* No request to POST /api/analyze-speech has been received.
AnalyzeQuiet ==
    /\ served = 0
    /\ pc = "idle"
    /\ req = NoRequest
    /\ parts = NoParts
    /\ content = Undefined
    /\ failures = {}
    /\ caught = {}
    /\ gemini = "none"
    /\ calls = NoCalls
    /\ stages = <<>>
    /\ responses = <<>>

\* A session record, and a request to and a response of the session routes.
SessionRecord(id, userId) == [id |-> id, userId |-> userId]

NoSession == SessionRecord(0, 0)

SessionRequest(op, caller, param, bodyUserId) ==
    [op |-> op, caller |-> caller, param |-> param, bodyUserId |-> bodyUserId]

NoSessionRequest == SessionRequest("none", 0, "", 0)

SessionResponse(status, session) == [status |-> status, session |-> session]

NoSessionResponse == SessionResponse(0, NoSession)

\* No request to the speech-sessions routes was made; the tables are empty.
SessionsQuiet ==
    /\ users = <<>>
    /\ store = <<>>
    /\ sreq = NoSessionRequest
    /\ sresp = NoSessionResponse

\* null as the value of analysisResults and of poseMetrics.
NullResults == [run |-> 0, source |-> "null"]
NullMetrics == [run |-> 0]

\* The useState initial values of Practice and of ResultsView; effect is
\* TRUE while the save effect of the next mount has not run.
InitialPractice ==
    [status |-> "setup", cameraEnabled |-> FALSE, micEnabled |-> FALSE,
     analysisResults |-> NullResults, poseMetrics |-> NullMetrics]

InitialView == [effect |-> TRUE, saving |-> FALSE, saved |-> FALSE]

NothingSent ==
    [run |-> 0, poseData |-> NullMetrics, transcript |-> EmptyTranscript]

\* The practice page as it is first rendered.
PageQuiet ==
    /\ practice = InitialPractice
    /\ view = InitialView
    /\ run = 0
    /\ sent = NothingSent
    /\ saves = <<>>
    /\ toasts = {}
    /\ open = TRUE
    /\ abandoned = {}

\* analyzeDelivery has not been called.
NoDelivery == [pace |-> Undefined]

DeliveryQuiet ==
    /\ segments = <<>>
    /\ delivery = NoDelivery

\* The keypoint names that are followed; a pose may hold keypoints
\* without a name as well.
KeypointNames == {"nose", "left_wrist"}

\* keypointHistory[name] and lastPositions[name] while they are undefined.
NoHistory == [x |-> <<>>, y |-> <<>>, score |-> <<>>]

NoPosition == [x |-> Undefined, y |-> Undefined, score |-> Undefined]

\* The initial value of useRef in Posedetector.
InitialMetricsRef ==
    [frameCount |-> 0, validPoseCount |-> 0, poseHistory |-> <<>>,
     keypointHistory |-> [name \in KeypointNames |-> NoHistory],
     lastPositions |-> [name \in KeypointNames |-> NoPosition],
     gestureCount |-> 0]

\* Posedetector as it is mounted: no frame was processed.
DetectorQuiet ==
    /\ metricsRef = InitialMetricsRef
    /\ pushed = [name \in KeypointNames |-> 0]
    /\ estimating = 0

\* No pose was passed yet, and no posture returned: a value that is
\* neither a score nor NaN.
NullPose == [score |-> Undefined, keypoints |-> <<>>]

NoPosture == Undefined - 1

\* calculatePoseMetrics has not been called.
PostureQuiet ==
    /\ currentPose = NullPose
    /\ postureResult = NoPosture

\* The metrics calculatePoseMetrics passes to onPoseDetected, as far as
\* RecordingView reads them.
RawMetrics(posture, gestures, stability) ==
    [posture |-> posture, gestures |-> gestures, stability |-> stability]

NoRawMetrics == RawMetrics(Undefined, Undefined, Undefined)

\* The useState initial value of RecordingView; it has no poseData.
InitialPoseMetrics ==
    [posture |-> 0, gestures |-> 0, stability |-> 0, confidence |-> 0,
     poseData |-> NoRawMetrics]

\* RecordingView as it is mounted: nothing was published.
RecordingQuiet ==
    /\ poseMetrics = InitialPoseMetrics
    /\ captured = {InitialPoseMetrics}
    /\ published = <<>>

UnitsQuiet == DeliveryQuiet /\ DetectorQuiet /\ PostureQuiet /\ RecordingQuiet

Init ==
    /\ version \in Versions
    /\ AnalyzeQuiet
    /\ SessionsQuiet
    /\ PageQuiet
    /\ UnitsQuiet

\* Send without the return: the handler goes on to its outer answer.
Send_NoReturn(resp) ==
    /\ responses' =
          Append(Append(responses, resp), Response(500, FALSE, "", NoAnalysis))
    /\ pc' = "responded"

\* res.status(...).json(...): the handler returns.
Send(resp) ==
    /\ responses' = Append(responses, resp)
    /\ pc' = "responded"

Receive ==
    /\ pc = "idle"
    /\ served < MaxRequests
    /\ \E r \in Requests : req' = r
    /\ pc' = "received"
    /\ UNCHANGED <<caught, version, served, parts, content, failures,
                   gemini, calls, stages, responses>>
    /\ UNCHANGED outsideAnalyze

Reject401 ==
    /\ pc = "received"
    /\ ~Authorized(version, req)
    /\ Send(Response(401, FALSE, "", NoAnalysis))
    /\ UNCHANGED <<caught, version, served, req, parts, content, failures,
                   gemini, calls, stages>>
    /\ UNCHANGED outsideAnalyze

Reject400 ==
    /\ pc = "received"
    /\ Authorized(version, req)
    /\ ~ValidBody(req)
    /\ Send(Response(400, FALSE, "", NoAnalysis))
    /\ UNCHANGED <<caught, version, served, req, parts, content, failures,
                   gemini, calls, stages>>
    /\ UNCHANGED outsideAnalyze

\* await analyzeTranscriptWithGemini(transcript, duration, poseData)
CallGemini ==
    /\ gemini' = "pending"
    /\ calls' = [calls EXCEPT !.gemini = @ + 1]
    /\ stages' = Append(stages, "gemini")
    /\ pc' = "gemini"

\* await analyzeTranscript(...): the empty transcript returns at once, any
\* other starts the four analyses.
StartOpenAI ==
    /\ pc = "received"
    /\ version = "openai_gemini"
    /\ Authorized(version, req)
    /\ ValidBody(req)
    /\ calls' = [calls EXCEPT !.openai = @ + 1]
    /\ stages' = Append(stages, "openai")
    /\ IF IsBlank(req.transcript)
       THEN /\ Send(OnPrimarySuccess(EmptyAnalysis))
            /\ UNCHANGED parts
       ELSE /\ pc' = "fanout"
            /\ parts' = [NoParts EXCEPT !.body =
                            IF PoseNeedsProvider(req.poseData)
                            THEN Pending ELSE BodyDefault]
            /\ UNCHANGED responses
    /\ UNCHANGED <<caught, version, served, req, content, failures, gemini>>
    /\ UNCHANGED outsideAnalyze

StartGemini ==
    /\ pc = "received"
    /\ version # "openai_gemini"
    /\ Authorized(version, req)
    /\ ValidBody(req)
    /\ CallGemini
    /\ UNCHANGED <<caught, version, served, req, parts, content, failures,
                   responses>>
    /\ UNCHANGED outsideAnalyze

SettleGrammar ==
    /\ pc = "fanout"
    /\ ~parts.grammar.done
    /\ \E g \in GrammarResults : parts' = [parts EXCEPT !.grammar = g]
    /\ UNCHANGED <<caught, version, served, pc, req, content, failures,
                   gemini, calls, stages, responses>>
    /\ UNCHANGED outsideAnalyze

SettleStructure ==
    /\ pc = "fanout"
    /\ ~parts.structure.done
    /\ \E o \in StructureOutcomes :
        /\ parts' = [parts EXCEPT !.structure = analyzeStructure(o)]
        /\ failures' = failures \cup FailureOf(o)
        /\ caught' = IF FailureOf(o) = {} THEN caught
                     ELSE caught \cup {"structure"}
    /\ UNCHANGED <<version, served, pc, req, content, gemini, calls, stages,
                   responses>>
    /\ UNCHANGED outsideAnalyze

SettleConfidence ==
    /\ pc = "fanout"
    /\ ~parts.confidence.done
    /\ \E o \in ConfidenceOutcomes :
        /\ parts' = [parts EXCEPT !.confidence = analyzeConfidence(o)]
        /\ failures' = failures \cup FailureOf(o)
        /\ caught' = IF FailureOf(o) = {} THEN caught
                     ELSE caught \cup {"confidence"}
    /\ UNCHANGED <<version, served, pc, req, content, gemini, calls, stages,
                   responses>>
    /\ UNCHANGED outsideAnalyze

SettlePose ==
    /\ pc = "fanout"
    /\ ~parts.body.done
    /\ \E o \in PoseOutcomes :
        /\ parts' = [parts EXCEPT !.body = analyzePose(o)]
        /\ failures' = failures \cup FailureOf(o)
        /\ caught' = IF FailureOf(o) = {} THEN caught
                     ELSE caught \cup {"body"}
    /\ UNCHANGED <<version, served, pc, req, content, gemini, calls, stages,
                   responses>>
    /\ UNCHANGED outsideAnalyze

\* Join without waiting for the confidence and body-language analyses.
Join_Early ==
    /\ pc = "fanout"
    /\ parts.grammar.done /\ parts.structure.done
    /\ content' = ContentScore(parts.grammar.score, parts.structure.score)
    /\ pc' = "summary"
    /\ UNCHANGED <<caught, version, served, req, parts, failures, gemini,
                   calls, stages, responses>>
    /\ UNCHANGED outsideAnalyze

\* Promise.all resolves; contentScore is computed and the summary call made.
Join ==
    /\ pc = "fanout"
    /\ \A k \in DOMAIN parts : parts[k].done
    /\ content' = ContentScore(parts.grammar.score, parts.structure.score)
    /\ pc' = "summary"
    /\ UNCHANGED <<caught, version, served, req, parts, failures, gemini,
                   calls, stages, responses>>
    /\ UNCHANGED outsideAnalyze

\* analyzeTranscript letting a rejected summary call escape.
analyzeTranscript_Escaping(p, c, o) ==
    IF o.kind = "rejected"
    THEN Threw(o.error)
    ELSE Returned(ComposeAnalysis(p, c, generateSummaryAndActionItems(o)))

\* analyzeTranscript as the route sees it settle.  Every rejection inside it
\* is caught by the analysis that made the call or by its own catch block,
\* so it resolves.
analyzeTranscript(p, c, o) ==
    Returned(ComposeAnalysis(p, c, generateSummaryAndActionItems(o)))

\* The summary call settles, analyzeTranscript returns and the route goes
\* on: the success answer, or its catch (error) branch.
SettleSummary ==
    /\ pc = "summary"
    /\ \E o \in SummaryOutcomes :
        LET r == analyzeTranscript(parts, content, o) IN
        /\ failures' = failures \cup FailureOf(o)
        /\ IF ~r.threw
           THEN /\ Send(OnPrimarySuccess(r.value))
                /\ UNCHANGED <<gemini, calls, stages>>
           ELSE IF isRateLimitOrQuotaError(r.error)
           THEN /\ CallGemini
                /\ UNCHANGED responses
           ELSE /\ Send(ServerError)
                /\ UNCHANGED <<gemini, calls, stages>>
    /\ UNCHANGED <<caught, version, served, req, parts, content>>
    /\ UNCHANGED outsideAnalyze

\* The Gemini call settles: its sanitized answer is sent, or the local
\* analyzer runs in the catch branch and its result is sent.
SettleGemini ==
    /\ pc = "gemini"
    /\ \E o \in GeminiOutcomes :
        LET r == analyzeTranscriptWithGemini(o) IN
        /\ gemini' = Settled(o)
        /\ IF ~r.threw
           THEN /\ Send(OnGeminiSuccess(r.value))
                /\ UNCHANGED <<calls, stages>>
           ELSE /\ calls' = [calls EXCEPT !.local = @ + 1]
                /\ stages' = Append(stages, "local")
                /\ Send(OnGeminiFailure(version, req))
    /\ UNCHANGED <<caught, version, served, req, parts, content, failures>>
    /\ UNCHANGED outsideAnalyze

\* The next request is taken.
Finish ==
    /\ pc = "responded"
    /\ served' = served + 1
    /\ pc' = "idle"
    /\ req' = NoRequest
    /\ parts' = NoParts
    /\ content' = Undefined
    /\ failures' = {}
    /\ caught' = {}
    /\ gemini' = "none"
    /\ calls' = NoCalls
    /\ stages' = <<>>
    /\ responses' = <<>>
    /\ UNCHANGED version
    /\ UNCHANGED outsideAnalyze

Next ==
    \/ Receive
    \/ Reject401
    \/ Reject400
    \/ StartOpenAI
    \/ StartGemini
    \/ SettleGrammar
    \/ SettleStructure
    \/ SettleConfidence
    \/ SettlePose
    \/ Join
    \/ SettleSummary
    \/ SettleGemini
    \/ Finish

Spec == Init /\ [][Next]_vars

\* Every promise settles and the event loop runs what is ready.
FairSpec == Spec /\ WF_vars(Next)

\* ------------------------------------------------- the speech-sessions routes

\* parseInt(req.params.id) that found no digits.
NaN == -1

\* The :id parameters a caller sends.
IdParams == {"abc", "1", "2", "3"}

\* parseInt(req.params.id)
ParseInt(param) ==
    CASE param = "1" -> 1
      [] param = "2" -> 2
      [] param = "3" -> 3
      [] OTHER -> NaN

\* Who sends a request: 0 is a caller without a login session, any other
\* is the id of a registered user (req.user.id).
Callers == 0..Len(users)

\* The userId field of a request body: 0 when the body has none.
BodyUserIds == 0..MaxUsers

\* storage.getSpeechSession(id): the record, or undefined (NoSession).
getSpeechSession(id) ==
    IF \E i \in 1..Len(store) : store[i].id = id
    THEN store[CHOOSE i \in 1..Len(store) : store[i].id = id]
    ELSE NoSession

\* storage.createSpeechSession(session): the serial id is assigned.
createSpeechSession(session) ==
    SessionRecord(Len(store) + 1, session.userId)

\* users[users.length - 1] of the routes that do not authenticate.
CurrentUser == users[Len(users)]

\* SessionData with the spread after the userId: a userId of the body wins.
SessionData_BodyLast(bodyUserId, userId) ==
    [userId |-> IF bodyUserId # 0 THEN bodyUserId ELSE userId]

\* { ...req.body, userId: <user id> }
SessionData(bodyUserId, userId) == [userId |-> userId]

\* GET /api/speech-sessions/:id
GetSessionResponse(caller, param) ==
    LET sessionId == ParseInt(param)
        session == getSpeechSession(sessionId)
    IN  IF RequiresAuth(version) /\ caller = 0
        THEN SessionResponse(401, NoSession)
        ELSE IF sessionId = NaN THEN SessionResponse(400, NoSession)
        ELSE IF session = NoSession THEN SessionResponse(404, NoSession)
        ELSE IF RequiresAuth(version) /\ session.userId # caller
        THEN SessionResponse(403, NoSession)
        ELSE SessionResponse(200, session)

\* A row of the users table.
User(id) == [id |-> id]

\* POST /api/register: a user row is inserted.
RegisterUser ==
    /\ Len(users) < MaxUsers
    /\ users' = Append(users, User(Len(users) + 1))
    /\ UNCHANGED <<version, analyzeVars, store, sreq, sresp, pageVars,
                   unitVars>>

GetSession ==
    /\ \E caller \in Callers : \E param \in IdParams :
        /\ sreq' = SessionRequest("get", caller, param, 0)
        /\ sresp' = GetSessionResponse(caller, param)
    /\ UNCHANGED <<version, analyzeVars, users, store, pageVars, unitVars>>

\* POST /api/speech-sessions
CreateSession ==
    /\ \E caller \in Callers : \E bodyUserId \in BodyUserIds :
        /\ sreq' = SessionRequest("create", caller, "", bodyUserId)
        /\ IF RequiresAuth(version) /\ caller = 0
           THEN /\ sresp' = SessionResponse(401, NoSession)
                /\ UNCHANGED store
           ELSE IF ~RequiresAuth(version) /\ users = <<>>
           THEN /\ sresp' = SessionResponse(404, NoSession)
                /\ UNCHANGED store
           ELSE LET owner == IF RequiresAuth(version) THEN caller
                             ELSE CurrentUser.id
                    newSession ==
                        createSpeechSession(SessionData(bodyUserId, owner))
                IN  /\ Len(store) < MaxSessions
                    /\ store' = Append(store, newSession)
                    /\ sresp' = SessionResponse(201, newSession)
    /\ UNCHANGED <<version, analyzeVars, users, pageVars, unitVars>>

SessionInit ==
    /\ version \in Versions
    /\ AnalyzeQuiet
    /\ SessionsQuiet
    /\ PageQuiet
    /\ UnitsQuiet

SessionNext ==
    \/ RegisterUser
    \/ GetSession
    \/ CreateSession

SessionSpec == SessionInit /\ [][SessionNext]_vars

\* -------------------------------------------------------- the practice page

\* What the analysis of a session came from: the response of POST
\* /api/analyze-speech, or analyzeResultsBasic in the catch of endPractice.
ResultSources == {"api", "basic"}

AnalysisResults(session, source, scores) ==
    [run |-> session, source |-> source, scores |-> scores]

\* The scores object of the results the page displays and saves.
Scores(speech, bodyLanguage, confidence, total) ==
    [speech |-> speech, bodyLanguage |-> bodyLanguage,
     confidence |-> confidence, total |-> total]

\* (speechScore * 0.4) + (bodyLanguageScore * 0.4) + (confidenceScore * 0.2)
TotalScore(speech, bodyLanguage, confidence) ==
    Times(speech, 2, 5) + Times(bodyLanguage, 2, 5) + Times(confidence, 1, 5)

\* The scores of combinedResults, read from response.analysis.
combinedScores(analysis) ==
    LET speechScore == OrElse(analysis.content, 0)
        confidenceScore == OrElse(analysis.confidence, 0)
        bodyLanguageScore == OrElse(analysis.body, S(75))
    IN  Scores(speechScore, bodyLanguageScore, confidenceScore,
               TotalScore(speechScore, bodyLanguageScore, confidenceScore))

\* elapsedTime when the session is ended, in seconds.
ElapsedTime == 30

\* The transcript of useSpeechRecognition when the session is ended.
SpokenTranscripts ==
    {EmptyTranscript, BlankTranscript, Transcript("string", 12, 2, 0, 1),
     Transcript("string", 180, 30, 0, 3)}

\* Math.min(1, elapsedTime / 30) times a whole score, rounded.
DurationScaled(score, elapsed) ==
    IF elapsed >= 30 THEN S(score) ELSE MathRound((S(score) * elapsed) \div 30)

\* The scores of analyzeResultsBasic(text).
analyzeResultsBasic(text, elapsed) ==
    IF ~TranscriptTruthy(text) \/ IsBlank(text) THEN Scores(0, 0, 0, 0)
    ELSE IF text.words < 5 THEN Scores(S(20), S(20), S(20), S(20))
    ELSE
    LET d == Duration("number", elapsed)
        speechScore ==
            Clamp100(S(70
                + (IF text.words < 20 THEN -10 ELSE 0)
                + (IF WpmBelow(text, d, 100) THEN -5
                   ELSE IF WpmAbove(text, d, 180) THEN -10 ELSE 5)
                - (text.fillers * 2)
                + (IF AvgLenAbove(text, 5) /\ AvgLenBelow(text, 20)
                   THEN 5 ELSE -5)))
        bodyLanguageScore == DurationScaled(75, elapsed)
        confidenceScore == DurationScaled(80, elapsed)
    IN  Scores(speechScore, bodyLanguageScore, confidenceScore,
               TotalScore(speechScore, bodyLanguageScore, confidenceScore))

\* The body of the POST /api/analyze-speech the page sends; metrics stands
\* for the object RecordingView published, if any.
AnalyzeRequest(auth, text, elapsed, metrics) ==
    Request(auth, text, Duration("number", elapsed),
            IF metrics = NullMetrics THEN NoPose
            ELSE Pose("object", S(85), S(60), S(0), 0))

\* The analyses the route can answer a valid request with whatever the
\* providers reply: the canned results of analyzeTranscript where it is the
\* first analyzer, the local analyzer elsewhere.
ServedAnalyses(v, r) ==
    IF ~(Authorized(v, r) /\ ValidBody(r)) THEN {}
    ELSE IF v = "openai_gemini"
    THEN (IF IsBlank(r.transcript) THEN {EmptyAnalysis} ELSE {ErrorAnalysis})
    ELSE {LocalAnalyzer(v, r)}

\* The metrics RecordingView passes up: they are computed from the poses
\* detected since it was mounted, that is during the session named.
PoseMetrics(session) == [run |-> session]

\* A POST /api/speech-sessions the page has issued.
SaveRequest(session, results, outcome) ==
    [run |-> session, results |-> results, outcome |-> outcome]

\* ResultsView mounted also while the analysis is still being processed.
ResultsViewMounted_WhileProcessing(p) ==
    p.status \in {"processing", "results"}

\* {status === 'results' && analysisResults && <ResultsView ... />}
ResultsViewMounted(p) ==
    p.status = "results" /\ p.analysisResults # NullResults

\* The page is unloaded: no callback of a pending request runs any more.
Dropped(requests) ==
    [i \in 1..Len(requests) |->
        IF requests[i].outcome = "pending"
        THEN [requests[i] EXCEPT !.outcome = "dropped"]
        ELSE requests[i]]

ToggleCamera ==
    /\ open
    /\ practice.status = "setup"
    /\ practice' = [practice EXCEPT !.cameraEnabled = ~@]
    /\ UNCHANGED <<view, run, sent, saves, toasts, open, abandoned>>
    /\ UNCHANGED outsidePage

\* getUserMedia and startListening succeed, or the catch shows a toast.
ToggleMic ==
    /\ open
    /\ practice.status = "setup"
    /\ IF practice.micEnabled
       THEN /\ practice' = [practice EXCEPT !.micEnabled = FALSE]
            /\ UNCHANGED toasts
       ELSE \E granted \in BOOLEAN :
            /\ practice' = [practice EXCEPT !.micEnabled = granted]
            /\ toasts' = IF granted THEN toasts \cup {"mic_enabled"}
                         ELSE toasts \cup {"mic_error"}
    /\ UNCHANGED <<view, run, sent, saves, open, abandoned>>
    /\ UNCHANGED outsidePage

\* startPractice starting the recording whatever is enabled.
startPractice_Unchecked ==
    /\ open
    /\ practice.status = "setup"
    /\ run < MaxRuns
    /\ practice' = [practice EXCEPT !.status = "recording"]
    /\ run' = run + 1
    /\ UNCHANGED <<view, sent, saves, toasts, open, abandoned>>
    /\ UNCHANGED outsidePage

\* if (!cameraEnabled || !micEnabled) { toast(...); return }
startPractice ==
    /\ open
    /\ practice.status = "setup"
    /\ IF practice.cameraEnabled /\ practice.micEnabled
       THEN /\ run < MaxRuns
            /\ practice' = [practice EXCEPT !.status = "recording"]
            /\ run' = run + 1
            /\ UNCHANGED toasts
       ELSE /\ toasts' = toasts \cup {"cannot_start"}
            /\ UNCHANGED <<practice, run>>
    /\ UNCHANGED <<view, sent, saves, open, abandoned>>
    /\ UNCHANGED outsidePage

\* onPoseMetricsUpdate={(metrics) => setPoseMetrics(metrics)}
PoseDetected ==
    /\ open
    /\ practice.status = "recording"
    /\ practice' = [practice EXCEPT !.poseMetrics = PoseMetrics(run)]
    /\ UNCHANGED <<view, run, sent, saves, toasts, open, abandoned>>
    /\ UNCHANGED outsidePage

\* endPractice up to its await: the analysis request is sent.
endPractice ==
    /\ open
    /\ practice.status = "recording"
    /\ practice' = [practice EXCEPT !.status = "processing"]
    /\ \E text \in SpokenTranscripts :
        sent' = [run |-> run, poseData |-> practice.poseMetrics,
                 transcript |-> text]
    /\ UNCHANGED <<view, run, saves, toasts, open, abandoned>>
    /\ UNCHANGED outsidePage

\* endPractice after its await: the response is used, or the catch falls
\* back to analyzeResultsBasic; either way the results are shown.
AnalysisSettles ==
    /\ open
    /\ practice.status = "processing"
    /\ \E auth \in BOOLEAN :
       LET r == AnalyzeRequest(auth, sent.transcript, ElapsedTime,
                               sent.poseData)
           basic == analyzeResultsBasic(sent.transcript, ElapsedTime)
       IN  \/ \E analysis \in ServedAnalyses(version, r) :
               /\ practice' = [practice EXCEPT
                       !.analysisResults =
                           AnalysisResults(run, "api",
                                           combinedScores(analysis)),
                       !.status = "results"]
               /\ UNCHANGED toasts
           \/ /\ practice' = [practice EXCEPT
                       !.analysisResults =
                           AnalysisResults(run, "basic", basic),
                       !.status = "results"]
               /\ toasts' = toasts \cup {"analysis_error"}
    /\ UNCHANGED <<view, run, sent, saves, open, abandoned>>
    /\ UNCHANGED outsidePage

\* The number of save requests from which on no dependency other than
\* saved changes any more.
MaxSaves == 2

\* }, [results, saved, toast]): after a render of ResultsView in which a
\* dependency has another identity the effect is run again.
EffectReruns ==
    /\ open
    /\ ResultsViewMounted(practice)
    /\ ~view.effect
    /\ Len(saves) < MaxSaves
    /\ view' = [view EXCEPT !.effect = TRUE]
    /\ UNCHANGED <<practice, run, sent, saves, toasts, open, abandoned>>
    /\ UNCHANGED outsidePage

\* The useEffect of ResultsView: saveSession issues the save request
\* unless saved is already set; saving is written and never read by it.
saveSession ==
    /\ open
    /\ ResultsViewMounted(practice)
    /\ view.effect
    /\ IF view.saved
       THEN /\ view' = [view EXCEPT !.effect = FALSE]
            /\ UNCHANGED saves
       ELSE /\ view' = [view EXCEPT !.effect = FALSE, !.saving = TRUE]
            /\ saves' = Append(saves,
                    SaveRequest(run, practice.analysisResults, "pending"))
    /\ UNCHANGED <<practice, run, sent, toasts, open, abandoned>>
    /\ UNCHANGED outsidePage

\* The catch of saveSession starting the page over.
SaveFailed_StartsOver(mounted) ==
    /\ toasts' = toasts \cup {"save_error"}
    /\ view' = InitialView
    /\ practice' = [practice EXCEPT !.status = "setup",
                                    !.analysisResults = NullResults]

\* catch (error) { toast("Save Error") } finally { setSaving(false) }
SaveFailed(mounted) ==
    /\ toasts' = toasts \cup {"save_error"}
    /\ view' = IF mounted THEN [view EXCEPT !.saving = FALSE] ELSE view
    /\ UNCHANGED practice

\* setSaved(true); toast("Session Saved"); finally { setSaving(false) }
\* saved is a dependency of the effect, which therefore runs again.
SaveSucceeded(mounted) ==
    /\ toasts' = toasts \cup {"saved"}
    /\ view' = IF mounted
               THEN [effect |-> TRUE, saving |-> FALSE, saved |-> TRUE]
               ELSE view
    /\ UNCHANGED practice

\* The response of a save request arrives, or the request fails.
SaveSettles ==
    /\ open
    /\ \E i \in 1..Len(saves) : \E ok \in BOOLEAN :
        LET mounted == ResultsViewMounted(practice) /\ saves[i].run = run IN
        /\ saves[i].outcome = "pending"
        /\ saves' = [saves EXCEPT ![i].outcome =
                        IF ok THEN "saved" ELSE "failed"]
        /\ IF ok THEN SaveSucceeded(mounted) ELSE SaveFailed(mounted)
    /\ UNCHANGED <<run, sent, open, abandoned>>
    /\ UNCHANGED outsidePage

\* Practice Again: ResultsView is unmounted; poseMetrics is not among the
\* values startOver resets.
startOver ==
    /\ open
    /\ ResultsViewMounted(practice)
    /\ practice' = [practice EXCEPT !.status = "setup",
                                    !.analysisResults = NullResults]
    /\ view' = InitialView
    /\ UNCHANGED <<run, sent, saves, toasts, open, abandoned>>
    /\ UNCHANGED outsidePage

\* Restart of RecordingView: window.location.reload().
Restart ==
    /\ open
    /\ practice.status = "recording"
    /\ practice' = InitialPractice
    /\ view' = InitialView
    /\ toasts' = {}
    /\ saves' = Dropped(saves)
    /\ abandoned' = abandoned \cup {run}
    /\ UNCHANGED <<run, sent, open>>
    /\ UNCHANGED outsidePage

\* window.location.href = '/dashboard', from the header or from the results.
goToDashboard ==
    /\ open
    /\ open' = FALSE
    /\ saves' = Dropped(saves)
    /\ abandoned' = IF practice.status \in {"recording", "processing"}
                    THEN abandoned \cup {run} ELSE abandoned
    /\ UNCHANGED <<practice, view, run, sent, toasts>>
    /\ UNCHANGED outsidePage

\* The page as first rendered, served by the routes whose analyzer is
\* analyzeTranscript with Gemini and the local analyzer behind it.
PracticeInit ==
    /\ version = "openai_gemini"
    /\ AnalyzeQuiet
    /\ SessionsQuiet
    /\ PageQuiet
    /\ UnitsQuiet

PracticeNext ==
    \/ ToggleCamera
    \/ ToggleMic
    \/ startPractice
    \/ PoseDetected
    \/ endPractice
    \/ AnalysisSettles
    \/ saveSession
    \/ SaveSettles
    \/ startOver
    \/ Restart
    \/ goToDashboard

PracticeSpec == PracticeInit /\ [][PracticeNext]_vars

\* The analysis request settles: its promise is fulfilled or rejected.
FairPracticeSpec == PracticeSpec /\ WF_vars(AnalysisSettles)

\* The page when results or toast may change identity between two renders
\* of ResultsView; in PracticeSpec they keep it.
PracticeRerunNext ==
    \/ PracticeNext
    \/ EffectReruns

PracticeRerunSpec == PracticeInit /\ [][PracticeRerunNext]_vars

\* ---------------------------------------------------------- analyzeDelivery

\* The longest segment list analyzeDelivery is called with.
MaxSegments == 6

\* Times are counted in half seconds.  A word duration (segmentDuration /
\* words) is counted in 1/WordUnit of a half second, which is exact for the
\* word counts of SegmentShapes.
WordUnit == 4 * 5 * 9

\* A segment of the transcription: the words of text.split(/\s+/), start
\* and end.
Segment(words, start, end) == [words |-> words, start |-> start, end |-> end]

\* A segment to be: its words, its length, and the silence before it.
Shape(words, duration, gap) ==
    [words |-> words, duration |-> duration, gap |-> gap]

SegmentShapes ==
    {Shape(4, 6, 0), Shape(6, 6, 1), Shape(9, 6, 2), Shape(10, 6, 2),
     Shape(3, 6, 1), Shape(0, 0, 2)}

RECURSIVE StartOf(_, _)
StartOf(shapes, i) ==
    IF i = 1 THEN shapes[1].gap
    ELSE StartOf(shapes, i - 1) + shapes[i - 1].duration + shapes[i].gap

SegmentsOf(shapes) ==
    [i \in 1..Len(shapes) |->
        Segment(shapes[i].words, StartOf(shapes, i),
                StartOf(shapes, i) + shapes[i].duration)]

RECURSIVE Sum(_)
Sum(seq) == IF seq = <<>> THEN 0 ELSE Head(seq) + Sum(Tail(seq))

SegmentDuration(segment) == segment.end - segment.start

\* totalWords / (totalDuration / 60) as the fraction <<num, den>>: a zero
\* den with a positive num is Infinity, with a zero num NaN.
Wpm(totalWords, totalDuration) == <<120 * totalWords, totalDuration>>

\* wpm < limit, as JavaScript compares numbers.
WpmLess(wpm, limit) ==
    CASE wpm[2] > 0 -> wpm[1] < limit * wpm[2]
      [] wpm[2] = 0 -> FALSE
      [] OTHER -> wpm[1] > limit * wpm[2]

\* Pace with the bands closed above instead of below.
Pace_ClosedAbove(wpm) ==
    LET AtMost(limit) ==
            WpmLess(wpm, limit) \/ (wpm[2] > 0 /\ wpm[1] = limit * wpm[2])
    IN  IF AtMost(80) THEN 40
        ELSE IF AtMost(120) THEN 60
        ELSE IF AtMost(190) THEN 90
        ELSE 70

Pace(wpm) ==
    IF WpmLess(wpm, 80) THEN 40
    ELSE IF WpmLess(wpm, 120) THEN 60
    ELSE IF WpmLess(wpm, 190) THEN 90
    ELSE 70

\* The pause loop counting a gap of half a second as well.
Pauses_FromHalfSecond(segs) ==
    Cardinality({i \in 1..(Len(segs) - 1) :
                    segs[i + 1].start - segs[i].end >= 1})

\* pauseDuration > 0.5 between a segment and the next one.
Pauses(segs) ==
    Cardinality({i \in 1..(Len(segs) - 1) :
                    segs[i + 1].start - segs[i].end > 1})

\* wordDurations: avgWordDuration of the segments where it is positive.
WordDurations(segs) ==
    LET timed == SelectSeq(segs,
                    LAMBDA g : g.words > 0 /\ SegmentDuration(g) > 0)
    IN  [i \in 1..Len(timed) |->
            (SegmentDuration(timed[i]) * WordUnit) \div timed[i].words]

\* (stdDev / avg) * 100 < limit, for n durations of sum total and sum of
\* squares squares: n * squares - total^2 is n^2 times the variance.
FactorBelow(n, total, squares, limit) ==
    (n * squares - total * total) * (100 \div limit) * (100 \div limit)
        < total * total

Variability(wordDurations) ==
    IF Len(wordDurations) > 5
    THEN LET n == Len(wordDurations)
             total == Sum(wordDurations)
             squares == Sum([i \in 1..n |->
                                wordDurations[i] * wordDurations[i]])
         IN  IF FactorBelow(n, total, squares, 10) THEN 50
             ELSE IF FactorBelow(n, total, squares, 25) THEN 70
             ELSE IF FactorBelow(n, total, squares, 50) THEN 90
             ELSE 75
    ELSE 0

analyzeDelivery(segs) ==
    IF Len(segs) = 0
    THEN [pace |-> 0, clarity |-> 0, variability |-> 0]
    ELSE LET totalWords == Sum([i \in 1..Len(segs) |-> segs[i].words])
             totalDuration ==
                Sum([i \in 1..Len(segs) |-> SegmentDuration(segs[i])])
             wpm == Wpm(totalWords, totalDuration)
         IN  [pace |-> Pace(wpm), clarity |-> 85,
              variability |-> Variability(WordDurations(segs)),
              wpm |-> wpm, pauses |-> Pauses(segs)]

\* analyzeDelivery is called with the segments and returns.
CallAnalyzeDelivery ==
    /\ delivery = NoDelivery
    /\ delivery' = analyzeDelivery(segments)
    /\ UNCHANGED segments
    /\ UNCHANGED <<version, analyzeVars, sessionVars, pageVars, detectorVars,
                   postureVars, recordingVars>>

DeliveryInit ==
    /\ version = "gemini_fallback"
    /\ AnalyzeQuiet
    /\ SessionsQuiet
    /\ PageQuiet
    /\ DetectorQuiet
    /\ PostureQuiet
    /\ RecordingQuiet
    /\ delivery = NoDelivery
    /\ \E n \in 0..MaxSegments : \E shapes \in [1..n -> SegmentShapes] :
        segments = SegmentsOf(shapes)

DeliveryNext == CallAnalyzeDelivery

DeliverySpec == DeliveryInit /\ [][DeliveryNext]_vars

\* ------------------------------------------------------------ Posedetector

\* The frames processed in a run of the detector.
MaxFrames == 92

\* The lengths the histories are capped at.
PoseHistoryCap == 90
KeypointHistoryCap == 30

\* canvas.width = video.videoWidth, in pixels.
CanvasWidth == 640

\* A keypoint of a pose; scores are counted in tenths.
Keypoint(name, x, y, score) ==
    [name |-> name, x |-> x, y |-> y, score |-> score]

DetectedPose(score, keypoints) == [score |-> score, keypoints |-> keypoints]

\* What estimatePoses resolves to: no pose, a pose of low score, and poses
\* whose wrist is unsure, unnamed or sure.
EstimatedPoses ==
    {<<>>,
     <<DetectedPose(1, <<Keypoint("nose", 320, 100, 9)>>)>>,
     <<DetectedPose(9, <<Keypoint("nose", 320, 100, 9),
                         Keypoint("left_wrist", 100, 300, 3)>>)>>,
     <<DetectedPose(9, <<Keypoint("nose", 320, 100, 9),
                         Keypoint("", 100, 300, 9)>>)>>,
     <<DetectedPose(9, <<Keypoint("nose", 320, 100, 9),
                         Keypoint("left_wrist", 100, 300, 9)>>)>>}

\* The cap dropping the sample just pushed instead of the oldest one.
Capped_DropNewest(seq, cap) ==
    IF Len(seq) > cap THEN SubSeq(seq, 1, cap) ELSE seq

\* if (array.length > cap) array.shift()
Capped(seq, cap) == IF Len(seq) > cap THEN Tail(seq) ELSE seq

\* The body of pose.keypoints.forEach for one keypoint.  st holds
\* metricsRef.current (ref) and the samples pushed (pushed); the x, y and
\* score pushed are named by the number of the sample.
TrackKeypoint(st, keypoint) ==
    IF keypoint.name = "" THEN st
    ELSE
    LET m == st.ref
        name == keypoint.name
        sample == st.pushed[name] + 1
        history == m.keypointHistory[name]
        grown == [x |-> Append(history.x, sample),
                  y |-> Append(history.y, sample),
                  score |-> Append(history.score, sample)]
        capped == IF Len(grown.x) > KeypointHistoryCap
                  THEN [x |-> Capped(grown.x, KeypointHistoryCap),
                        y |-> Capped(grown.y, KeypointHistoryCap),
                        score |-> Capped(grown.score, KeypointHistoryCap)]
                  ELSE grown
        wrist == name \in {"left_wrist", "right_wrist"} /\ keypoint.score > 5
        lastPos == m.lastPositions[name]
        dx == keypoint.x - lastPos.x
        dy == keypoint.y - lastPos.y
        gesture == /\ wrist
                   /\ lastPos # NoPosition
                   /\ 400 * (dx * dx + dy * dy) > CanvasWidth * CanvasWidth
    IN  [ref |->
            [m EXCEPT
                !.keypointHistory[name] = capped,
                !.gestureCount = IF gesture THEN @ + 1 ELSE @,
                !.lastPositions[name] =
                    IF wrist
                    THEN [x |-> keypoint.x, y |-> keypoint.y,
                          score |-> keypoint.score]
                    ELSE @],
         pushed |-> [st.pushed EXCEPT ![name] = sample]]

RECURSIVE TrackKeypoints(_, _)
TrackKeypoints(st, keypoints) ==
    IF keypoints = <<>> THEN st
    ELSE TrackKeypoints(TrackKeypoint(st, Head(keypoints)), Tail(keypoints))

\* if (pose.score && pose.score > 0.2) { ... }: the pose is counted and
\* pushed, named by its number among the valid poses.
TrackPose(st, pose) ==
    IF pose.score > 2
    THEN LET m == st.ref
             counted ==
                [m EXCEPT
                    !.validPoseCount = @ + 1,
                    !.poseHistory =
                        Capped(Append(@, m.validPoseCount + 1),
                               PoseHistoryCap)]
         IN  TrackKeypoints([st EXCEPT !.ref = counted], pose.keypoints)
    ELSE st

\* detectPose up to its await, for a video that is playing.
detectPose ==
    /\ estimating = 0
    /\ metricsRef.frameCount < MaxFrames
    /\ metricsRef' = [metricsRef EXCEPT !.frameCount = @ + 1]
    /\ estimating' = estimating + 1
    /\ UNCHANGED pushed
    /\ UNCHANGED <<version, analyzeVars, sessionVars, pageVars, deliveryVars,
                   postureVars, recordingVars>>

\* detectPose after its await: the poses are tracked and the next frame is
\* requested.  The metrics sent to onPoseDetected every second are computed
\* by reading metricsRef.
PosesEstimated ==
    /\ estimating > 0
    /\ estimating' = estimating - 1
    /\ \E poses \in EstimatedPoses :
        LET st == [ref |-> metricsRef, pushed |-> pushed]
            tracked == IF Len(poses) > 0 THEN TrackPose(st, poses[1]) ELSE st
        IN  /\ metricsRef' = tracked.ref
            /\ pushed' = tracked.pushed
    /\ UNCHANGED <<version, analyzeVars, sessionVars, pageVars, deliveryVars,
                   postureVars, recordingVars>>

DetectorInit ==
    /\ version = "gemini_fallback"
    /\ AnalyzeQuiet
    /\ SessionsQuiet
    /\ PageQuiet
    /\ UnitsQuiet

DetectorNext ==
    \/ detectPose
    \/ PosesEstimated

DetectorSpec == DetectorInit /\ [][DetectorNext]_vars

\* ---------------------------------------------- calculatePoseMetrics: posture

\* The landmarks the posture is read from.
AlignmentLandmarks ==
    <<"left_shoulder", "right_shoulder", "left_hip", "right_hip", "nose">>

\* Where the five landmarks are, in the order of AlignmentLandmarks:
\* upright and centred; level, the hips a little to the side; shoulders
\* tilted and the head off the spine.
Geometries ==
    {<<<<20, 20>>, <<40, 20>>, <<22, 40>>, <<38, 40>>, <<30, 10>>>>,
     <<<<20, 20>>, <<40, 20>>, <<24, 40>>, <<40, 40>>, <<30, 10>>>>,
     <<<<20, 20>>, <<40, 30>>, <<24, 40>>, <<40, 40>>, <<31, 10>>>>}

\* How a landmark is detected: not at all, with score 0.3, with score 0.9.
Detections == {"absent", "unsure", "sure"}

\* The keypoints of a pose: the landmarks detected, then others keypoints
\* of other names.
PoseKeypoints(geometry, detection, others) ==
    LET landmark(i) ==
            Keypoint(AlignmentLandmarks[i], geometry[i][1], geometry[i][2],
                     IF detection[i] = "sure" THEN 9 ELSE 3)
        present == SelectSeq([i \in 1..5 |-> i],
                             LAMBDA i : detection[i] # "absent")
    IN  [k \in 1..Len(present) |-> landmark(present[k])]
            \o [k \in 1..others |-> Keypoint("left_eye", 28, 8, 9)]

PosturePoses ==
    {DetectedPose(9, PoseKeypoints(geometry, detection, others)) :
        geometry \in Geometries, detection \in [1..5 -> Detections],
        others \in {10, 11, 12}}

\* pose.keypoints.find(kp => kp.name === name) || null
NoKeypoint == Keypoint("", Undefined, Undefined, Undefined)

keypointByName(pose, name) ==
    LET found == SelectSeq(pose.keypoints, LAMBDA kp : kp.name = name)
    IN  IF found = <<>> THEN NoKeypoint ELSE Head(found)

Abs(x) == IF x < 0 THEN -x ELSE x

\* Math.max(0, 1 - num / den) for num, den >= 0, as a fraction; nan when
\* num / den is 0 / 0.
TiltFactor(num, den) ==
    IF den = 0
    THEN [nan |-> num = 0, num |-> 0, den |-> 1]
    ELSE [nan |-> FALSE, num |-> IF den > num THEN den - num ELSE 0,
          den |-> den]

\* postureScore, rounded: 50 unless the pose has more than 15 keypoints and
\* the five landmarks are found.
PostureScore(pose) ==
    LET leftShoulder == keypointByName(pose, "left_shoulder")
        rightShoulder == keypointByName(pose, "right_shoulder")
        leftHip == keypointByName(pose, "left_hip")
        rightHip == keypointByName(pose, "right_hip")
        nose == keypointByName(pose, "nose")
        \* doubled, to stay whole
        shoulderMidX == leftShoulder.x + rightShoulder.x
        hipMidX == leftHip.x + rightHip.x
        shoulder == TiltFactor(Abs(leftShoulder.y - rightShoulder.y),
                               Abs(leftShoulder.x - rightShoulder.x))
        hip == TiltFactor(Abs(leftHip.y - rightHip.y),
                          Abs(leftHip.x - rightHip.x))
        spine == TiltFactor(Abs(2 * nose.x - shoulderMidX),
                            Abs(shoulderMidX - hipMidX))
        weighted == 30 * shoulder.num * hip.den * spine.den
                        + 30 * hip.num * shoulder.den * spine.den
                        + 40 * spine.num * shoulder.den * hip.den
        whole == shoulder.den * hip.den * spine.den
    IN  IF Len(pose.keypoints) > 15
            /\ leftShoulder # NoKeypoint /\ rightShoulder # NoKeypoint
            /\ leftHip # NoKeypoint /\ rightHip # NoKeypoint
            /\ nose # NoKeypoint
        THEN IF shoulder.nan \/ hip.nan \/ spine.nan THEN NaN
             ELSE (2 * weighted + whole) \div (2 * whole)
        ELSE 50

\* calculatePoseMetrics(currentPose): the posture of the metrics it returns.
calculatePoseMetrics ==
    /\ postureResult = NoPosture
    /\ postureResult' = PostureScore(currentPose)
    /\ UNCHANGED currentPose
    /\ UNCHANGED <<version, analyzeVars, sessionVars, pageVars, deliveryVars,
                   detectorVars, recordingVars>>

PostureInit ==
    /\ version = "gemini_fallback"
    /\ AnalyzeQuiet
    /\ SessionsQuiet
    /\ PageQuiet
    /\ DeliveryQuiet
    /\ DetectorQuiet
    /\ RecordingQuiet
    /\ currentPose \in PosturePoses
    /\ postureResult = NoPosture

PostureNext == calculatePoseMetrics

PostureSpec == PostureInit /\ [][PostureNext]_vars

\* ------------------------------------------------------------ RecordingView

\* The pose updates of a recording.
MaxUpdates == 3

\* The metrics onPoseDetected is called with.
RawScores == {0, 40, 100}

DetectedMetrics ==
    {RawMetrics(posture, gestures, stability) :
        posture \in RawScores, gestures \in {0, 100}, stability \in {0, 100}}

\* Math.round(previous * 0.7 + raw * 0.3) for whole scores.
Smooth(previous, raw) == (7 * previous + 3 * raw + 5) \div 10

\* updatedMetrics of handlePoseDetected, for the poseMetrics the handler
\* has captured.  rawPose and keypoints are passed on as they are.
UpdatedMetrics(closure, metrics) ==
    [posture |-> Smooth(closure.posture, metrics.posture),
     gestures |-> Smooth(closure.gestures, metrics.gestures),
     stability |-> Smooth(closure.stability, metrics.stability),
     confidence |-> (metrics.posture + metrics.stability + 1) \div 2,
     poseData |-> metrics]

\* handlePoseDetected(pose, metrics), called by a detection loop.  Every
\* render of RecordingView makes a new handler over the poseMetrics of that
\* render and starts a detection loop with it; the loops started before go
\* on with the handlers they were given.
handlePoseDetected ==
    /\ Len(published) < MaxUpdates
    /\ \E metrics \in DetectedMetrics : \E closure \in captured :
        LET updatedMetrics == UpdatedMetrics(closure, metrics)
        IN  /\ poseMetrics' = updatedMetrics
            /\ captured' = captured \cup {updatedMetrics}
            /\ published' = Append(published, updatedMetrics)
    /\ UNCHANGED <<version, analyzeVars, sessionVars, pageVars, deliveryVars,
                   detectorVars, postureVars>>

RecordingInit ==
    /\ version = "gemini_fallback"
    /\ AnalyzeQuiet
    /\ SessionsQuiet
    /\ PageQuiet
    /\ UnitsQuiet

RecordingNext == handlePoseDetected

RecordingSpec == RecordingInit /\ [][RecordingNext]_vars

\* ------------------------------------------------------------- the claims

Responded == pc = "responded"

TheResponse == responses[1]

TheAnalysis == TheResponse.analysis

GeminiFailed ==
    gemini \in {"rejected_quota", "rejected_other", "no_json", "bad_json"}

\* k is the nearest integer to fifths / 5 (as scaled numbers), halves up.
IsRoundOfFifths(k, fifths) ==
    /\ k % Scale = 0
    /\ 10 * k - 5 * Scale <= 2 * fifths
    /\ 2 * fifths < 10 * k + 5 * Scale

\* overall = round(0.4 content + 0.4 body + 0.2 confidence) within a.
OverallMatches(a) ==
    /\ IsNum(a.content) /\ IsNum(a.body) /\ IsNum(a.confidence)
    /\ IsNum(a.overall)
    /\ IsRoundOfFifths(a.overall, 2 * a.content + 2 * a.body + a.confidence)

\* content = round(0.6 language + 0.4 structure) within a.
ContentMatches(a) ==
    /\ IsNum(a.content) /\ IsNum(a.language) /\ IsNum(a.structure)
    /\ IsRoundOfFifths(a.content, 3 * a.language + 2 * a.structure)

\* C1: whenever a call of the primary provider (OpenAI) made inside
\* analyzeTranscript fails with a quota or rate-limit error, Gemini is
\* invoked exactly once for that request, and if it succeeds the response
\* is the success response with Gemini's analysis and tag.
C1_QuotaFailureInvokesGemini ==
    (Responded /\ "quota" \in failures) =>
        /\ calls.gemini = 1
        /\ gemini = "parsed" =>
              /\ TheResponse.success
              /\ TheResponse.provider = "gemini"
              /\ TheAnalysis.src = "gemini"

\* C2: when Gemini is invoked and fails (rejection, no JSON in the text,
\* unparseable JSON), generateFallbackAnalysis runs once and the only
\* response is 200 success with exactly its result, tagged "fallback".
C2_GeminiFailureAnsweredLocally ==
    GeminiFailed =>
        /\ Responded
        /\ calls.local = 1
        /\ Len(responses) = 1
        /\ TheResponse.status = 200
        /\ TheResponse.success
        /\ TheResponse.provider = "fallback"
        /\ TheAnalysis = LocalAnalyzer(version, req)
        /\ TheAnalysis.src = "fallback"

C2_Witness ==
    /\ Responded
    /\ gemini = "bad_json"
    /\ TheResponse.provider = "fallback"
    /\ req.transcript.words = 30

\* C3: when the primary provider (OpenAI, in the version that tries it
\* first) fails with errors none of which is a quota error, the response is
\* an error response and neither Gemini nor the local analyzer is invoked.
C3_OtherFailureIsSurfaced ==
    (Responded /\ version = "openai_gemini" /\ failures = {"other"}) =>
        /\ ~TheResponse.success
        /\ TheResponse.status = 500
        /\ calls.gemini = 0
        /\ calls.local = 0

\* A provider failure that is not a quota error happened in this request.
OpenAIOtherFailure == "other" \in failures
GeminiOtherFailure == gemini \in {"rejected_other", "no_json", "bad_json"}

SuccessWithTag ==
    /\ Len(responses) = 1
    /\ TheResponse.status = 200
    /\ TheResponse.success
    /\ TheResponse.provider \in {"openai", "gemini", "fallback"}

StageRank(st) ==
    CASE st = "openai" -> 1 [] st = "gemini" -> 2 [] OTHER -> 3

C5_Safety ==
    /\ calls.openai <= 1 /\ calls.gemini <= 1 /\ calls.local <= 1
    /\ \A i \in 1..Len(stages) : \A j \in 1..Len(stages) :
          i < j => StageRank(stages[i]) < StageRank(stages[j])
    /\ Len(stages) = calls.openai + calls.gemini + calls.local
    /\ Len(responses) = IF Responded THEN 1 ELSE 0

BadTranscript(t) == t.type # "string" \/ t.chars = 0
BadDuration(d) == d.type # "number" \/ d.val <= 0

\* C6: a request with such a body is answered 400 and no analyzer ever runs
\* for it; where the version authenticates, an unauthenticated caller is
\* answered 401 whatever the body, and no analyzer runs either.
C6_InvalidBodyRejectedFirst ==
    LET bad == BadTranscript(req.transcript) \/ BadDuration(req.duration)
        anonymous == RequiresAuth(version) /\ ~req.auth
    IN  (pc # "idle" /\ (bad \/ anonymous)) =>
            /\ calls = NoCalls
            /\ stages = <<>>
            /\ pc \in {"received", "responded"}
            /\ Responded =>
                  /\ Len(responses) = 1
                  /\ TheResponse.status = IF anonymous THEN 401 ELSE 400
                  /\ ~TheResponse.success

C6_Witness ==
    /\ Responded
    /\ req.duration = Duration("number", -5)
    /\ req.transcript.words = 30
    /\ TheResponse.status = 400

NoSpeechInsights(a) ==
    Cardinality({i \in 1..Len(a.insights) : a.insights[i] = "no_speech"})

\* C7: for a whitespace-only transcript the analysis that reaches the
\* caller has content score 0, overall score 0 and exactly one "no speech
\* detected" insight, whichever analyzer produced it.
C7_BlankTranscriptScoresZero ==
    (Responded /\ TheResponse.success /\ IsBlank(req.transcript)) =>
        /\ TheAnalysis.content = 0
        /\ TheAnalysis.overall = 0
        /\ NoSpeechInsights(TheAnalysis) = 1

\* C8: on the success path of analyzeTranscript the overall score is
\* round(0.4 content + 0.4 body + 0.2 confidence) of the scores returned in
\* the same result.
C8_OverallIsWeightedRound ==
    (Responded /\ TheAnalysis.src = "composed") => OverallMatches(TheAnalysis)

\* 80 / 70 / 60 gives 72.
C8_Witness ==
    /\ Responded
    /\ TheAnalysis.src = "composed"
    /\ TheAnalysis.content = S(80)
    /\ TheAnalysis.body = S(70)
    /\ TheAnalysis.confidence = S(60)
    /\ TheAnalysis.overall = S(72)

\* C9: every analysis returned with a success response, whichever analyzer
\* produced it, has overall = round(0.4 content + 0.4 body + 0.2 confidence)
\* of its own three scores.
C9_EveryOverallIsWeightedRound ==
    (Responded /\ TheResponse.success) => OverallMatches(TheAnalysis)

\* C10: the content score is round(0.6 language + 0.4 structure) of the
\* scores in the same result, on the success path of analyzeTranscript and
\* in the result of generateFallbackAnalysis.
C10_ContentIsWeightedRound ==
    (Responded /\ TheAnalysis.src \in {"composed", "fallback"}) =>
        ContentMatches(TheAnalysis)

\* A score that is present lies in [0, 100].
InRange(x) == IsNum(x) => (0 <= x /\ x <= S(100))

ScoreFields ==
    {"content", "language", "structure", "body", "posture", "gestures",
     "movement", "confidence", "overall"}

\* C11: for a non-empty transcript, every sub-score and the overall score of
\* the analysis returned with a success response lies in [0, 100], whatever
\* the providers answered and whatever poseData the client sent.
C11_ScoresWithinRange ==
    (Responded /\ TheResponse.success /\ ~IsBlank(req.transcript)) =>
        \A f \in ScoreFields : InRange(TheAnalysis[f])


\* A score that is a number in [0, 100].
IsScore(x) == IsNum(x) /\ 0 <= x /\ x <= S(100)

\* C12: the analysis validateAndSanitizeAnalysis returns has its three
\* section scores and its overall score present as numbers in [0, 100] (a
\* missing score counts as 70) and a non-empty list of action items.
C12_SanitizedIsComplete ==
    (Responded /\ TheAnalysis.src = "gemini") =>
        /\ IsScore(TheAnalysis.content)
        /\ IsScore(TheAnalysis.body)
        /\ IsScore(TheAnalysis.confidence)
        /\ IsScore(TheAnalysis.overall)
        /\ Len(TheAnalysis.items) > 0


\* The place of an action item in the priority cascade.
ItemRank(item) ==
    CASE item = "outline" -> 1
      [] item \in {"slow_down", "speed_up"} -> 2
      [] item = "fillers" -> 3
      [] item = "posture" -> 4
      [] item = "gestures" -> 5
      [] OTHER -> 6

\* C13: the action items of an analysis of the local analyzer are at most
\* 5; those of the cascade come in the order short-transcript, pacing,
\* filler, posture, gesture advice, and the closing item is there only when
\* fewer than 5 items precede it.
C13_ActionItemsCapped ==
    (Responded /\ TheAnalysis.src = "fallback") =>
        LET items == TheAnalysis.items IN
        /\ Len(items) <= 5
        /\ version = "gemini_fallback" =>
              /\ \A i \in 1..Len(items) : \A j \in 1..Len(items) :
                    i < j => ItemRank(items[i]) < ItemRank(items[j])
              /\ \A i \in 1..Len(items) :
                    items[i] = "keep_practicing" => i - 1 < 5


\* An exception escaped the composition inside analyzeTranscript: the
\* structure JSON had no insights array to spread.
PipelineException ==
    /\ Responded
    /\ version = "openai_gemini"
    /\ parts.structure.done
    /\ ~parts.structure.iterable

\* C16: when an unexpected exception occurs in the analysis pipeline the
\* result is the all-zero analysis with the generic error insight, and the
\* response of that request is an HTTP 500, not a successful analysis.
C16_ExceptionAnsweredAs500 ==
    PipelineException =>
        /\ ComposeAnalysis(parts, content, <<>>) = ErrorAnalysis
        /\ Len(responses) = 1
        /\ TheResponse.status = 500
        /\ ~TheResponse.success

\* The documented default of a failed analysis.
FailedDefault == Part(TRUE, S(50), <<"error_occurred">>, TRUE)

FanOut == {"structure", "confidence", "body"}

\* The analyses are joined before composition; each analysis whose call
\* failed holds the default, every other holds a result of its own, and the
\* composed scores are those of the joined values.
C17_Joined ==
    version = "openai_gemini" =>
        /\ caught \subseteq FanOut
        /\ \A k \in caught : parts[k] = FailedDefault
        /\ \A k \in FanOut \ caught : parts[k] # FailedDefault
        /\ pc = "summary" =>
              /\ \A k \in DOMAIN parts : parts[k].done
              /\ content =
                    ContentScore(parts.grammar.score, parts.structure.score)
        /\ (Responded /\ TheAnalysis.src = "composed") =>
              /\ \A k \in DOMAIN parts : parts[k].done
              /\ TheAnalysis.language = parts.grammar.score
              /\ TheAnalysis.structure = parts.structure.score
              /\ TheAnalysis.body = parts.body.score
              /\ TheAnalysis.confidence = parts.confidence.score
              /\ TheAnalysis.content =
                    ContentScore(parts.grammar.score, parts.structure.score)
              /\ TheAnalysis.overall =
                    OverallScore(TheAnalysis.content, parts.body.score,
                                 parts.confidence.score)

\* An analysis that has settled keeps its value while the others settle.
C17_Stable ==
    \A k \in DOMAIN parts :
        (parts[k].done /\ pc' # "idle") => parts'[k] = parts[k]

Requested == getSpeechSession(ParseInt(sreq.param))

\* C14: GET /api/speech-sessions/:id answers 200 with the record only to
\* the record's owner, 403 to another authenticated caller, 404 to an
\* authenticated caller when no record has that id; a caller who is not
\* authenticated never receives a record.
C14_OnlyOwnerReadsSession ==
    sreq.op = "get" =>
        /\ sresp.status = 200 =>
              /\ sreq.caller # 0
              /\ sresp.session = Requested
              /\ Requested # NoSession
              /\ Requested.userId = sreq.caller
        /\ sresp.status # 200 => sresp.session = NoSession
        /\ (sreq.caller # 0 /\ Requested # NoSession
                /\ Requested.userId # sreq.caller) => sresp.status = 403
        /\ (sreq.caller # 0 /\ ParseInt(sreq.param) # NaN
                /\ Requested = NoSession) => sresp.status = 404

\* A step of POST /api/speech-sessions in the routes that authenticate
\* inserts a record only for an authenticated caller, and the record is
\* owned by that caller whatever userId the body names.
C15_Step ==
    (RequiresAuth(version) /\ store' # store) =>
        /\ sreq'.op = "create"
        /\ sreq'.caller # 0
        /\ Len(store') = Len(store) + 1
        /\ SubSeq(store', 1, Len(store)) = store
        /\ store'[Len(store')].userId = sreq'.caller
        /\ sresp' = SessionResponse(201, store'[Len(store')])

SaveFails ==
    \E i \in 1..Len(saves) :
        /\ i <= Len(saves')
        /\ saves[i].outcome = "pending"
        /\ saves'[i].outcome = "failed"

\* The failure is reported as a save error and the Practice state (status,
\* analysisResults) is what it was.
C18_Step ==
    SaveFails =>
        /\ practice' = practice
        /\ "save_error" \in toasts'
        /\ ResultsViewMounted(practice) => ResultsViewMounted(practice')

\* Whenever the status is 'results' the results are there to be displayed.
C18_Displayed ==
    practice.status = "results" => ResultsViewMounted(practice)

\* C18: a failed save request never discards or alters the analysis: the
\* status stays 'results', analysisResults is unchanged and displayed, and
\* the failure is reported separately as a save error.
C18_FailedSaveKeepsResults == [][C18_Step]_vars /\ []C18_Displayed

C18_Witness ==
    /\ saves # <<>>
    /\ saves[Len(saves)].outcome = "failed"
    /\ saves[Len(saves)].run = run
    /\ practice.status = "results"
    /\ practice.analysisResults = saves[Len(saves)].results
    /\ "save_error" \in toasts

\* A save request is issued only from the results of a finished session.
C19_Step ==
    Len(saves') > Len(saves) =>
        /\ practice.status = "results"
        /\ practice.analysisResults # NullResults
        /\ saves'[Len(saves')].results = practice.analysisResults
        /\ saves'[Len(saves')].run = practice.analysisResults.run

\* No save request belongs to a session that was left or restarted during
\* setup, recording or processing, and none carries null results.
C19_NoneForAbandoned ==
    \A i \in 1..Len(saves) :
        /\ saves[i].run \notin abandoned
        /\ saves[i].results # NullResults

\* C19: no partial session is persisted: a save request is issued only
\* after the session reached 'results' with non-null analysisResults, and
\* never for a session the user left or restarted before that.
C19_NoPartialSessionSaved == [][C19_Step]_vars /\ []C19_NoneForAbandoned

C19_Witness ==
    /\ abandoned = {1}
    /\ Len(saves) = 1
    /\ saves[1].run = 2
    /\ saves[1].outcome = "saved"

\* C20: the poseData sent with the analysis request of a session holds
\* only metrics produced during that session; when no pose update occurred
\* in it, no metrics of an earlier session are sent.
C20_PoseDataOfThisSession ==
    sent.poseData # NullMetrics => sent.poseData.run = sent.run

\* The analysis request of the session on display was answered with the
\* canned result of analyzeTranscript for a transcript without words.
SentinelServed ==
    /\ version = "openai_gemini"
    /\ ValidTranscript(sent.transcript)
    /\ IsBlank(sent.transcript)

ZeroScores == Scores(0, 0, 0, 0)

\* C21: when the analysis the page received is the all-zero result for an
\* empty transcript, every score of the scores object the page builds
\* from it (speech, bodyLanguage, confidence, total), displays and saves is
\* zero.
C21_SentinelScoresAllZero ==
    /\ (SentinelServed /\ practice.analysisResults # NullResults
            /\ practice.analysisResults.run = sent.run
            /\ practice.analysisResults.source = "api")
        => practice.analysisResults.scores = ZeroScores
    /\ \A i \in 1..Len(saves) :
        (SentinelServed /\ saves[i].run = sent.run
            /\ saves[i].results.source = "api")
        => saves[i].results.scores = ZeroScores

\* The words and the seconds of a segment list, and whether analyzeDelivery
\* has returned for a list that is not empty.
WordsSpoken == Sum([i \in 1..Len(segments) |-> segments[i].words])

HalfSeconds ==
    Sum([i \in 1..Len(segments) |-> segments[i].end - segments[i].start])

Delivered == delivery # NoDelivery /\ Len(segments) > 0

RECURSIVE GapsOver(_)
GapsOver(segs) ==
    IF Len(segs) < 2 THEN 0
    ELSE (IF segs[2].start - segs[1].end > 1 THEN 1 ELSE 0)
            + GapsOver(Tail(segs))

\* The segments one after the other, each gap seconds after the last.
Retimed(segs, gap) ==
    SegmentsOf([i \in 1..Len(segs) |->
                  Shape(segs[i].words, segs[i].end - segs[i].start, gap)])

\* C23: pauses is the number of consecutive segments more than 0.5 s
\* apart (a gap of exactly 0.5 s is none), it is at most segments.length - 1,
\* and pace and variability are what they are for the same segments
\* without any pause and with a pause between any two.
C23_PausesCountedNotScored ==
    Delivered =>
        /\ delivery.pauses = GapsOver(segments)
        /\ delivery.pauses <= Len(segments) - 1
        /\ \A gap \in {0, 2} :
            LET other == analyzeDelivery(Retimed(segments, gap))
            IN  /\ other.pace = delivery.pace
                /\ other.variability = delivery.variability

\* Three segments 0.5 s and 1 s apart: one pause.
C23_Witness ==
    /\ Delivered
    /\ Len(segments) = 3
    /\ segments[2].start - segments[1].end = 1
    /\ segments[3].start - segments[2].end = 2
    /\ delivery.pauses = 1

\* C24: for fewer than two segments the variability score is the neutral
\* midpoint 50.
C24_FewSegmentsNeutralVariability ==
    (delivery # NoDelivery /\ Len(segments) < 2) => delivery.variability = 50

\* The last n of the numbers 1..count, in order.
LastOf(count, n) ==
    LET len == IF count < n THEN count ELSE n
    IN  [i \in 1..len |-> count - len + i]

\* C25: after any frames the pose history holds at most 90 poses and the
\* x, y and score histories of every keypoint have the same length, at
\* most 30; they hold the most recent samples in the order of arrival, the
\* oldest being dropped when a cap is exceeded.
C25_HistoriesAreRolling ==
    /\ Len(metricsRef.poseHistory) <= 90
    /\ metricsRef.poseHistory = LastOf(metricsRef.validPoseCount, 90)
    /\ \A name \in KeypointNames :
        LET history == metricsRef.keypointHistory[name]
        IN  /\ Len(history.x) = Len(history.y)
            /\ Len(history.y) = Len(history.score)
            /\ Len(history.x) <= 30
            /\ history.x = LastOf(pushed[name], 30)
            /\ history.y = history.x
            /\ history.score = history.x

\* 91 valid poses were pushed, 31 of them with a named wrist.
C25_Witness ==
    /\ metricsRef.validPoseCount = 91
    /\ pushed["left_wrist"] = 31
    /\ Len(metricsRef.poseHistory) = 90
    /\ Len(metricsRef.keypointHistory["left_wrist"].x) = 30
    /\ estimating = 0

\* Every one of the five alignment landmarks of the pose is detected with a
\* confidence above 0.5.
LandmarksConfident ==
    \A i \in 1..5 :
        \E k \in 1..Len(currentPose.keypoints) :
            /\ currentPose.keypoints[k].name = AlignmentLandmarks[i]
            /\ currentPose.keypoints[k].score > 5

\* C27: the posture is computed from the alignment of the landmarks only
\* when the pose has at least 16 keypoints and each of the five landmarks
\* has a confidence above 0.5; otherwise it is the midpoint 50.
C27_PostureNeedsConfidentLandmarks ==
    (postureResult # NoPosture
        /\ ~(Len(currentPose.keypoints) >= 16 /\ LandmarksConfident))
    => postureResult = 50

\* The raw value of a published field: the metric of the same name, and
\* for confidence the mean of posture and stability it is built from.
RawValue(metrics, field) ==
    IF field = "confidence"
    THEN (metrics.posture + metrics.stability + 1) \div 2
    ELSE metrics[field]

PublishedFields == {"posture", "gestures", "stability", "confidence"}

\* C26: every field published on a pose update is round(0.7 * the value
\* published before + 0.3 * the new raw value), and stays within 0..100
\* for raw values within 0..100.
C26_PublishedIsMovingAverage ==
    \A i \in 1..Len(published) : \A field \in PublishedFields :
        LET before == IF i = 1 THEN InitialPoseMetrics ELSE published[i - 1]
            raw == RawValue(published[i].poseData, field)
        IN  /\ published[i][field] = (7 * before[field] + 3 * raw + 5) \div 10
            /\ published[i][field] >= 0
            /\ published[i][field] <= 100

\* A change of status of the page that is loaded; Restart loads the page
\* anew, which puts a new Practice component in its first state.
C28_Step ==
    (practice'.status # practice.status /\ ~Restart) =>
        \/ /\ practice.status = "setup"
           /\ practice'.status = "recording"
           /\ practice.cameraEnabled /\ practice.micEnabled
        \/ /\ practice.status = "recording"
           /\ practice'.status = "processing"
        \/ /\ practice.status = "processing"
           /\ practice'.status = "results"
        \/ /\ practice.status = "results"
           /\ practice'.status = "setup"

C28_Shown ==
    practice.status = "results" /\ practice.analysisResults # NullResults

\* C28: the status changes only from setup to recording (with camera and
\* microphone enabled), from recording to processing, from processing to
\* results and from results to setup; and once it is processing it becomes
\* results with analysisResults set, however the analysis request settles,
\* while the page stays loaded.
C28_StatusCycle ==
    /\ [][C28_Step]_vars
    /\ (practice.status = "processing" /\ open) ~> (C28_Shown \/ ~open)

\* The second session was started after a refused start and a first
\* session, and shows the results of the basic analysis.
C28_Witness ==
    /\ C28_Shown
    /\ open
    /\ run = 2
    /\ "cannot_start" \in toasts
    /\ practice.analysisResults.source = "basic"

\* The save requests issued for the results of one session.
SavesOf(session) == {i \in 1..Len(saves) : saves[i].run = session}

\* A save request is issued only while none of the same results view is
\* in flight and none has succeeded.
C29_Step ==
    Len(saves') > Len(saves) =>
        /\ ~view.saved
        /\ \A i \in SavesOf(run) : saves[i].outcome \notin {"pending", "saved"}

\* Of the save requests of one session at most one is in flight and at most
\* one has succeeded.
C29_OneRecord ==
    \A session \in 1..MaxRuns : \A i, j \in SavesOf(session) :
        (i # j /\ saves[i].outcome \in {"pending", "saved"})
            => saves[j].outcome \notin {"pending", "saved"}

\* C29: for one displayed results view at most one save request is in
\* flight at a time and none is issued after a save has succeeded, also
\* when the save effect runs again while a request is in flight; so one
\* finished session yields at most one persisted record.
C29_AtMostOneSave == [][C29_Step]_vars /\ []C29_OneRecord

\* The pose sub-scores of the local analyzer and their built-in defaults.
PoseFields == {"posture", "gestures", "movement"}

BuiltInDefault(field) ==
    CASE field = "posture" -> S(70)
      [] field = "gestures" -> S(65)
      [] field = "movement" -> S(75)

\* poseData supplies the field.
PoseSupplies(field) ==
    req.poseData.kind = "object" /\ req.poseData[field] # Undefined

\* C30: in an analysis of generateFallbackAnalysis every pose sub-score
\* that poseData supplies as a number of 0..100, 0 included, equals the
\* supplied value, and a sub-score that poseData does not supply has its
\* built-in default (70, 65, 75).
C30_SuppliedPoseScoresUsed ==
    (Responded /\ TheAnalysis.src = "fallback") =>
        \A field \in PoseFields :
            /\ (PoseSupplies(field) /\ req.poseData[field] \in 0..S(100))
                  => TheAnalysis[field] = req.poseData[field]
            /\ ~PoseSupplies(field)
                  => TheAnalysis[field] = BuiltInDefault(field)

====
